---- MODULE Spec2Model ----
(***************************************************************************)
(* Model of the speech-assistant relay                                     *)
(*   src/src/speech_assistant/main.py      handle_websocket and its pumps   *)
(*   src/src/speech_assistant/simple_call_logger.py   SimpleCallLogger      *)
(*   src/src/speech_assistant/moving_agent.py   MovingAgent (SpecStore)     *)
(*   src/main.py   the relay with greeting protection (SpecRoot)            *)
(* One client connection is served by handle_websocket.  Its two           *)
(* coroutines receive_from_client and send_to_client run on one asyncio    *)
(* loop: a handler body runs without preemption between awaits.  Each pump  *)
(* writes only its own variables, and no handler reads a variable of the   *)
(* other pump both before and after one of its awaits, so the handling of  *)
(* one message is one atomic action here.                                  *)
(* Optional values (Python None) are sequences of length 0 or 1 for        *)
(* integers and the string "None" for item ids.                            *)
(***************************************************************************)
EXTENDS Integers, Sequences, FiniteSets, TLC

VARIABLES
    \* ---- handle_websocket: control and transports
    hpc,                      \* position of handle_websocket
    call_id,                  \* main.py:142
    client_conn,              \* the client websocket: "open" | "closed"
    openai_state,             \* openai_ws.state: CONNECTING | OPEN | CLOSED
    cpc,                      \* receive_from_client: idle | run | done | raised
    upc,                      \* send_to_client:      idle | run | done | raised
    \* ---- connection specific state, main.py:153-161
    latest_media_timestamp,
    last_assistant_item,
    response_start_timestamp,
    assistant_speaking,
    last_tts_sent_at,
    client_recording,
    current_response_id,
    \* ---- time.monotonic(), in milliseconds
    now,
    \* ---- the locals of a second handle_websocket, suspended at an await
    other,
    \* ---- SimpleCallLogger
    active_calls,             \* keys of self.active_calls
    call_data,                \* the call_data dict object of each call id
    complete_writes,          \* number of writes of <id>_complete.json
    complete_file,            \* what <id>_complete.json holds
    transcript_file,          \* lines appended to <id>_transcript.txt
    summary_requests,         \* chat-completion requests issued so far
    end_inv,                  \* the invocations of end_call_and_summarize
    end_calls,                \* invocations of end_call_and_summarize begun, per caller
    \* ---- what the last step did (observation only)
    ev,                       \* the message or event the last step handled
    up_out,                   \* messages it sent on openai_ws, in order
    cl_out,                   \* messages it sent on the client websocket
    log_out,                  \* add_transcript_entry calls it made
    \* ---- MovingAgent, src/src/speech_assistant/moving_agent.py
    active_requests,          \* self.active_requests: request id -> MovingRequest
    request_file,             \* <storage_dir>/<id>.json: request id -> JSON object
    store_calls,              \* calls made on the store so far
    last_call,                \* the last call on the store and what it returned
    \* ---- handle_media_stream of src/main.py, lines 156-174; it also has
    \* latest_media_timestamp and response_start_timestamp, as above
    conversation_started,
    last_assistant_item_id,
    waiting_for_response,
    audio_chunks_since_commit,
    audio_appended,
    response_in_progress,
    greeting_start_time       \* the local of send_to_client, line 288

session == <<latest_media_timestamp, last_assistant_item, response_start_timestamp,
             assistant_speaking, last_tts_sent_at, client_recording,
             current_response_id>>
conn    == <<hpc, call_id, client_conn, openai_state, cpc, upc>>
logger  == <<active_calls, call_data, complete_writes, complete_file, transcript_file,
             summary_requests, end_inv, end_calls>>
obs     == <<ev, up_out, cl_out, log_out>>
store   == <<active_requests, request_file, store_calls, last_call>>
root    == <<conversation_started, last_assistant_item_id, waiting_for_response,
             audio_chunks_since_commit, audio_appended, response_in_progress,
             greeting_start_time>>
aside   == <<store, root>>
relay   == <<conn, session, now, other, logger, obs>>
vars    == <<conn, session, now, other, logger, obs, aside>>

(***************************************************************************)
(* Bounds of the model                                                     *)
(***************************************************************************)
MaxTicks == 4              \* clock steps explored
TickMs == 200              \* length of one clock step, ms
MaxTranscript == 2         \* transcript entries per call explored
MaxHttpEndCalls == 2       \* requests to the end-call endpoint explored
MaxStoreCalls == 4         \* calls on the moving-request store explored
MaxChunks == 3             \* audio chunks since the last commit explored
MaxGreetingTicks == 3      \* clock steps explored by the relay of src/main.py
GreetingTickMs == 3000     \* length of one of them, ms

(***************************************************************************)
(* Program constants                                                       *)
(***************************************************************************)
EchoWindowMs == 350        \* echo_window = 0.35
GreetingWindowMs == 6000   \* (current_time - greeting_start_time) < 6
CommitChunks == 2          \* audio_chunks_since_commit >= 2

None == <<>>
Some(x) == <<x>>
NoItem == "None"

CallIds == {"c1", "c2"}            \* "c1" is the uuid start_call draws
MediaTimestamps == {1000, 1450}    \* data['timestamp'] of client audio
ItemIds == {"item_A", "item_B"}    \* response['item_id'] of audio deltas
Invokers == {"ws", "http"}         \* callers of end_call_and_summarize

\* the list without the completion event
LOG_EVENT_TYPES_NoDone == {"error", "response.content.done", "rate_limits.updated",
    "input_audio_buffer.committed",
    "input_audio_buffer.speech_stopped", "input_audio_buffer.speech_started",
    "session.created", "conversation.item.input_audio_transcription.completed",
    "input_audio_buffer.appended"}

LOG_EVENT_TYPES == {"error", "response.content.done", "rate_limits.updated",
    "response.done", "input_audio_buffer.committed",
    "input_audio_buffer.speech_stopped", "input_audio_buffer.speech_started",
    "session.created", "conversation.item.input_audio_transcription.completed",
    "input_audio_buffer.appended"}

\* ---- messages on the wire
AudioAppend_NoPayload(a) == [type |-> "input_audio_buffer.append", audio |-> ""]
AudioAppend(a)  == [type |-> "input_audio_buffer.append", audio |-> a]
BufferEnd       == [type |-> "input_audio_buffer.end"]
ItemCreate      == [type |-> "conversation.item.create"]
ResponseCreate  == [type |-> "response.create"]
ResponseCancel  == [type |-> "response.cancel"]
SessionUpdate   == [type |-> "session.update"]
ClAudio         == [type |-> "audio"]
ClClear         == [type |-> "clear"]
ClError         == [type |-> "error"]

IdleEv == [src |-> "none", type |-> "none"]
Ev(s, t) == [src |-> s, type |-> t]

\* The step sends nothing, logs nothing and reports what it handled
Quiet(s, t) == ev' = Ev(s, t) /\ up_out' = <<>> /\ cl_out' = <<>> /\ log_out' = <<>>

(***************************************************************************)
(* Messages the environment can deliver                                    *)
(***************************************************************************)
\* wire: "bad_json" is text json.loads rejects; "no_type" is JSON without a
\* 'type' key; "ok" is JSON with a 'type'.
\* data['audio'] of the audio message with data['timestamp'] = ts
AudioOf(ts) == IF ts = 1000 THEN "pcm_1" ELSE "pcm_2"

ClientMessages ==
    {[wire |-> w, type |-> "", timestamp |-> 0, audio |-> ""] : w \in {"bad_json", "no_type"}}
    \cup {[wire |-> "ok", type |-> t, timestamp |-> 0, audio |-> ""] :
            t \in {"start", "stop", "ping"}}
    \cup {[wire |-> "ok", type |-> "audio", timestamp |-> ts, audio |-> AudioOf(ts)] :
            ts \in MediaTimestamps}

Texts == {"", " ", "hello"}

OpenAIMessages ==
    {[wire |-> w, type |-> "", item_id |-> NoItem, has_delta |-> FALSE, transcript |-> ""] :
        w \in {"bad_json", "no_type"}}
    \cup {[wire |-> "ok", type |-> t, item_id |-> NoItem, has_delta |-> FALSE, transcript |-> ""] :
        t \in {"error", "response.done", "session.created",
               "input_audio_buffer.speech_started"}}
    \cup {[wire |-> "ok", type |-> "response.audio.delta", item_id |-> i,
           has_delta |-> TRUE, transcript |-> ""] : i \in ItemIds \cup {NoItem}}
    \cup {[wire |-> "ok", type |-> "response.audio.delta", item_id |-> NoItem,
           has_delta |-> FALSE, transcript |-> ""]}
    \cup {[wire |-> "ok", type |-> t, item_id |-> NoItem, has_delta |-> FALSE,
           transcript |-> x] :
        t \in {"response.audio_transcript.done",
               "conversation.item.input_audio_transcription.completed"},
        x \in Texts}

\* the upstream events that drive the turn state, and the rest
TurnMessages == {m \in OpenAIMessages : m.transcript = ""}
TranscriptMessages ==
    {m \in OpenAIMessages :
        \/ m.wire = "bad_json"
        \/ m.wire = "ok" /\ m.type \in {"error",
                                     "response.audio_transcript.done",
                                     "conversation.item.input_audio_transcription.completed"}}
CallClientMessages == {m \in ClientMessages : m.wire = "bad_json" \/ m.type = "ping"}

EvType(m) == IF m.wire = "ok" THEN m.type ELSE m.wire

\* every text counts as blank
Strip_AllBlank(t) == ""

\* str.strip() on the texts of the model
Strip(t) == IF t \in {"", " "} THEN "" ELSE t

(***************************************************************************)
(* SimpleCallLogger                                                        *)
(***************************************************************************)
NoCall == [status |-> "none", transcript |-> <<>>, summary |-> "none",
           structured_data |-> "none"]
IdleInv == [pc |-> "idle", id |-> "none", result |-> "none"]

NoSummary == "No conversation recorded."
EmptyStructured == "empty"

\* line 23: uuid.uuid4() is an id no call had before
FreshCallId == IF call_data["c1"].status = "none" THEN "c1" ELSE "c2"

\* start_call: a fresh record in active_calls and a new transcript file
start_call(id) ==
    /\ active_calls' = active_calls \cup {id}
    /\ call_data' = [call_data EXCEPT ![id] =
            [status |-> "active", transcript |-> <<>>, summary |-> "none",
             structured_data |-> "none"]]
    /\ transcript_file' = [transcript_file EXCEPT ![id] = <<>>]

\* the membership test is missing
KnownCall_Always(id) == TRUE

\* lines 43, 66: call_id in self.active_calls
KnownCall(id) == id \in active_calls

\* the entry is kept in memory and not written to the file
add_transcript_entry_NoFile(id, speaker, text) ==
    /\ log_out' = <<[id |-> id, speaker |-> speaker, text |-> text]>>
    /\ IF ~KnownCall(id)
       THEN UNCHANGED <<call_data, transcript_file>>
       ELSE LET entry == [speaker |-> speaker, text |-> text] IN
            /\ call_data' = [call_data EXCEPT ![id].transcript = Append(@, entry)]
            /\ UNCHANGED transcript_file

add_transcript_entry(id, speaker, text) ==
    /\ log_out' = <<[id |-> id, speaker |-> speaker, text |-> text]>>
    /\ IF ~KnownCall(id)
       THEN UNCHANGED <<call_data, transcript_file>>
       ELSE LET entry == [speaker |-> speaker, text |-> text] IN
            /\ call_data' = [call_data EXCEPT ![id].transcript = Append(@, entry)]
            /\ transcript_file' = [transcript_file EXCEPT ![id] = Append(@, entry)]

\* the handler of a message makes no call of add_transcript_entry
NoEntry == UNCHANGED <<call_data, transcript_file>> /\ log_out' = <<>>

\* _generate_summary / _extract_structured_data: what a finished request yields
SummaryOutcomes == {"ok", "non200", "exception"}
ExtractOutcomes == {"ok", "unparsable", "non200", "exception"}

\* a failed request leaves no summary text
SummaryOf_Unhandled(outcome) == IF outcome = "ok" THEN "SUMMARY" ELSE "none"

SummaryOf(outcome) ==
    CASE outcome = "ok" -> "SUMMARY"
      [] outcome = "non200" -> "Summary generation failed."
      [] OTHER -> "Summary generation failed due to technical error."

StructuredOf(outcome) == IF outcome = "ok" THEN "DATA" ELSE EmptyStructured

\* lines 83-100: store the results, write the files, evict the record
\* `del self.active_calls[call_id]` raises KeyError when the key is gone
\* the record is never evicted
RemoveActive_Keep(id) == active_calls

RemoveActive(id) == active_calls \ {id}

Finish(inv, id, summary, structured) ==
    /\ call_data' = [call_data EXCEPT ![id].summary = summary,
                                      ![id].structured_data = structured,
                                      ![id].status = "completed"]
    /\ complete_writes' = [complete_writes EXCEPT ![id] = @ + 1]
    /\ complete_file' = [complete_file EXCEPT ![id] = <<call_data'[id]>>]
    /\ active_calls' = RemoveActive(id)
    /\ end_inv' = [end_inv EXCEPT ![inv] =
            IF id \in active_calls
            THEN [pc |-> "returned", id |-> id, result |-> summary]
            ELSE [pc |-> "raised", id |-> id, result |-> "KeyError"]]

\* the requests are issued whatever the transcript holds
HasTranscript_Always(id) == TRUE

\* lines 104, 221: `if not call_data["transcript"]` returns the placeholder
HasTranscript(id) == call_data[id].transcript # <<>>

\* lines 66-81 up to the first await that suspends
EndCallBegin(inv, id) ==
    /\ end_calls' = [end_calls EXCEPT ![inv] = @ + 1]
    /\ IF ~KnownCall(id)
       THEN /\ end_inv' = [end_inv EXCEPT ![inv] =
                   [pc |-> "returned", id |-> id, result |-> "Call not found"]]
            /\ UNCHANGED <<active_calls, call_data, complete_writes, complete_file,
                           summary_requests>>
       ELSE IF ~HasTranscript(id)
            THEN /\ Finish(inv, id, NoSummary, EmptyStructured)
                 /\ UNCHANGED summary_requests
            ELSE /\ call_data' = [call_data EXCEPT ![id].status = "completed"]
                 /\ summary_requests' = summary_requests + 1
                 /\ end_inv' = [end_inv EXCEPT ![inv] =
                       [pc |-> "summary", id |-> id, result |-> "none"]]
                 /\ UNCHANGED <<active_calls, complete_writes, complete_file>>

\* the summary request returns; _extract_structured_data issues its request
SummaryReturn(inv, outcome) ==
    /\ end_inv[inv].pc = "summary"
    /\ LET id == end_inv[inv].id IN
       /\ end_inv' = [end_inv EXCEPT ![inv] =
             [pc |-> "extract", id |-> id, result |-> SummaryOf(outcome)]]
       /\ summary_requests' = summary_requests + 1
    /\ Quiet("logger", "summary_return")
    /\ UNCHANGED <<conn, session, now, other, aside, active_calls, call_data, complete_writes,
                   complete_file, transcript_file, end_calls>>

\* the extraction request returns; lines 83-100
ExtractReturn(inv, outcome) ==
    /\ end_inv[inv].pc = "extract"
    /\ Finish(inv, end_inv[inv].id, end_inv[inv].result, StructuredOf(outcome))
    /\ Quiet("logger", "extract_return")
    /\ UNCHANGED <<conn, session, now, other, aside, transcript_file, summary_requests, end_calls>>

\* POST /call-logs/{log_id}/end
HttpEndCall(id) ==
    /\ end_inv["http"].pc \in {"idle", "returned", "raised"}
    /\ end_calls["http"] < MaxHttpEndCalls
    /\ EndCallBegin("http", id)
    /\ Quiet("http", "end_call")
    /\ UNCHANGED <<conn, session, now, other, aside, transcript_file>>

(***************************************************************************)
(* Transports                                                              *)
(***************************************************************************)
UpstreamOpen == openai_state = "OPEN"       \* openai_ws.state == State.OPEN
ClientOpen == client_conn = "open"

(***************************************************************************)
(* handle_websocket, main.py:136-355                                       *)
(***************************************************************************)
\* lines 139-143: accept the client, start call logging
Accept ==
    /\ hpc = "accept"
    /\ hpc' = "connect"
    /\ call_id' = FreshCallId
    /\ start_call(FreshCallId)
    /\ Quiet("handler", "accept")
    /\ UNCHANGED <<client_conn, openai_state, cpc, upc, session, now, other, aside,
                   complete_writes, complete_file, summary_requests, end_inv, end_calls>>

\* line 167: websockets.connect; a failed handshake raises out of the handler
Connect ==
    /\ hpc = "connect"
    /\ \/ hpc' = "configure" /\ openai_state' = "OPEN"
       \/ hpc' = "failed" /\ openai_state' = "CLOSED"
    /\ Quiet("handler", "connect")
    /\ UNCHANGED <<call_id, client_conn, cpc, upc, session, now, other, aside, logger>>

\* line 168: initialize_session; its send raises when the upstream is closed,
\* otherwise line 344 starts the two pumps
Configure ==
    /\ hpc = "configure"
    /\ IF UpstreamOpen
       THEN /\ hpc' = "gather" /\ cpc' = "run" /\ upc' = "run"
            /\ up_out' = <<SessionUpdate>>
            /\ UNCHANGED openai_state
       ELSE /\ hpc' = "failed"
            /\ up_out' = <<>>
            /\ UNCHANGED <<openai_state, cpc, upc>>
    /\ ev' = Ev("handler", "configure") /\ cl_out' = <<>> /\ log_out' = <<>>
    /\ UNCHANGED <<call_id, client_conn, session, now, other, aside, logger>>

\* line 344: gather returns when both pumps returned, and raises as soon as
\* one of them raised (the other keeps running); lines 345-346 catch it
GatherEnds ==
    \/ cpc = "done" /\ upc = "done"
    \/ cpc = "raised"
    \/ upc = "raised"

\* the call is ended after gather instead of in a finally clause: an exception
\* of a pump skips it
Finally_OnlyOnReturn ==
    /\ hpc = "gather"
    /\ GatherEnds
    /\ IF cpc = "raised" \/ upc = "raised"
       THEN /\ hpc' = "done"
            /\ UNCHANGED <<active_calls, call_data, complete_writes, complete_file,
                           summary_requests, end_inv, end_calls>>
       ELSE /\ hpc' = "finally"
            /\ EndCallBegin("ws", call_id)
    /\ Quiet("handler", "finally")
    /\ UNCHANGED <<call_id, client_conn, openai_state, cpc, upc, session, now, other, aside,
                   transcript_file>>

\* lines 347-355: the finally clause calls end_call_and_summarize(call_id)
Finally ==
    /\ hpc = "gather"
    /\ GatherEnds
    /\ hpc' = "finally"
    /\ EndCallBegin("ws", call_id)
    /\ Quiet("handler", "finally")
    /\ UNCHANGED <<call_id, client_conn, openai_state, cpc, upc, session, now, other, aside,
                   transcript_file>>

\* end_call_and_summarize returned or raised (lines 354-355 catch it); leaving
\* the `async with` of line 167 closes openai_ws
HandlerExit ==
    /\ hpc = "finally"
    /\ end_inv["ws"].pc \in {"returned", "raised"}
    /\ hpc' = "done"
    /\ openai_state' = "CLOSED"
    /\ Quiet("handler", "exit")
    /\ UNCHANGED <<call_id, client_conn, cpc, upc, session, now, other, aside, logger>>

(***************************************************************************)
(* receive_from_client, main.py:171-204                                    *)
(***************************************************************************)
\* line 176, 177: json.loads and data['type'] raise on a malformed message;
\* only WebSocketDisconnect is caught (line 201)
ClientMessageRaises(m) == m.wire \in {"bad_json", "no_type"}

\* no except clause of receive_from_client catches them: the coroutine ends
AfterClientError == "raised"

\* the assignment binds a local of receive_from_client
RecordingAfterStop_Local == client_recording

\* response_start_timestamp is nonlocal and the assignment takes effect
StartTimestampAfterStart_Nonlocal == None

\* line 188 binds a local of receive_from_client (line 173 does not declare
\* response_start_timestamp nonlocal): the variable of the handler keeps its value
StartTimestampAfterStart == response_start_timestamp

\* line 196, on the nonlocal client_recording of line 173
RecordingAfterStop == FALSE

ClientMessage(m) ==
    /\ cpc = "run"
    /\ ClientOpen
    /\ ev' = Ev("client", EvType(m))
    /\ cl_out' = <<>> /\ log_out' = <<>>
    /\ IF ClientMessageRaises(m)
       THEN /\ cpc' = AfterClientError
            /\ up_out' = <<>>
            /\ UNCHANGED <<latest_media_timestamp, client_recording>>
       ELSE IF m.type = "audio" /\ UpstreamOpen
       THEN \* lines 177-183
            /\ latest_media_timestamp' = m.timestamp
            /\ up_out' = <<AudioAppend(m.audio)>>
            /\ UNCHANGED <<cpc, client_recording>>
       ELSE IF m.type = "start"
       THEN \* lines 185-193; response_start_timestamp and last_assistant_item
            \* are not nonlocal here (line 173): the assignments of lines 188
            \* and 190 bind locals of receive_from_client
            /\ client_recording' = TRUE
            /\ latest_media_timestamp' = 0
            /\ IF UpstreamOpen
               THEN up_out' = <<ItemCreate, ResponseCreate>> /\ UNCHANGED cpc
               ELSE up_out' = <<>> /\ cpc' = AfterClientError
       ELSE IF m.type = "stop"
       THEN \* lines 194-200
            /\ client_recording' = RecordingAfterStop
            /\ up_out' = IF UpstreamOpen THEN <<BufferEnd>> ELSE <<>>
            /\ UNCHANGED <<cpc, latest_media_timestamp>>
       ELSE /\ up_out' = <<>>
            /\ UNCHANGED <<cpc, latest_media_timestamp, client_recording>>
    /\ response_start_timestamp' =
            IF m.wire = "ok" /\ m.type = "start"
            THEN StartTimestampAfterStart ELSE response_start_timestamp
    /\ UNCHANGED <<hpc, call_id, client_conn, openai_state, upc,
                   last_assistant_item,
                   assistant_speaking, last_tts_sent_at, current_response_id,
                   now, other, aside, logger>>

\* The client is gone.  websocket.iter_text() either ends the iteration or
\* lets WebSocketDisconnect through to lines 201-204, which close openai_ws.
ClientGone ==
    /\ cpc = "run"
    /\ ~ClientOpen
    /\ cpc' = "done"
    /\ \/ UNCHANGED openai_state
       \/ openai_state' = "CLOSED"
    /\ Quiet("client", "disconnect")
    /\ UNCHANGED <<hpc, call_id, client_conn, upc, session, now, other, aside, logger>>

(***************************************************************************)
(* send_to_client, main.py:206-309                                         *)
(***************************************************************************)
\* the test without the echo window
BargeIn_NoEchoWindow ==
    /\ client_recording
    /\ assistant_speaking

\* the test without the recording flag
BargeIn_NoRecording ==
    /\ assistant_speaking
    /\ (now - last_tts_sent_at) > EchoWindowMs

\* the test without the speaking flag
BargeIn_NoSpeaking ==
    /\ client_recording
    /\ (now - last_tts_sent_at) > EchoWindowMs

\* line 271
BargeIn ==
    /\ client_recording
    /\ assistant_speaking
    /\ (now - last_tts_sent_at) > EchoWindowMs

\* the frame is sent twice
DeltaFrames_Twice == <<ClAudio, ClAudio>>

\* lines 226-230: what an audio delta sends the client
DeltaFrames == <<ClAudio>>

\* lines 273-274: what the interruption sends upstream
InterruptUpstream == <<ResponseCancel>>

\* line 212, 215: json.loads raises on bad JSON, response['type'] on a message
\* without type; lines 296-300 catch both
OpenAIMessageRaises(m) == m.wire \in {"bad_json", "no_type"}

\* an await of the handler raises: send_json of line 230 or 274 with the client
\* gone, openai_ws.send of line 273 with the upstream closed
OpenAISendRaises(m) ==
    /\ m.wire = "ok"
    /\ \/ m.type = "response.audio.delta" /\ m.has_delta /\ ~ClientOpen
       \/ /\ m.type = "input_audio_buffer.speech_started"
          /\ BargeIn
          /\ ~UpstreamOpen \/ ~ClientOpen

OpenAIRaises(m) == OpenAIMessageRaises(m) \/ OpenAISendRaises(m)

\* the exception leaves the loop
AfterOpenAIError_Fatal == "raised"

\* lines 296-300: the exception is printed and the loop goes on
AfterOpenAIError == "run"

\* One message of the async for of line 210.  Messages received before the
\* upstream closed are still delivered after it, so the handler may run with
\* openai_ws already CLOSED.
OpenAIMessage(m) ==
    /\ upc = "run"
    /\ openai_state \in {"OPEN", "CLOSED"}
    /\ ev' = Ev("openai", EvType(m))
    /\ IF OpenAIMessageRaises(m)
       THEN /\ up_out' = <<>> /\ cl_out' = <<>>
            /\ UNCHANGED session /\ NoEntry
       ELSE IF m.type \in LOG_EVENT_TYPES /\ m.type = "response.done"
       THEN \* lines 215-222
            /\ response_start_timestamp' = None
            /\ assistant_speaking' = FALSE
            /\ up_out' = <<>> /\ cl_out' = <<>>
            /\ UNCHANGED <<latest_media_timestamp, last_assistant_item,
                           last_tts_sent_at, client_recording, current_response_id>>
            /\ NoEntry
       ELSE IF m.type = "response.audio.delta" /\ m.has_delta
       THEN \* lines 224-240; send_json raises when the client is gone
            /\ up_out' = <<>>
            /\ IF ClientOpen
               THEN /\ cl_out' = DeltaFrames
                    /\ last_tts_sent_at' = now
                    /\ IF response_start_timestamp = None
                       THEN /\ response_start_timestamp' = Some(latest_media_timestamp)
                            /\ assistant_speaking' = TRUE
                       ELSE UNCHANGED <<response_start_timestamp, assistant_speaking>>
                    /\ IF m.item_id # NoItem
                       THEN /\ last_assistant_item' = m.item_id
                            /\ current_response_id' = m.item_id
                       ELSE UNCHANGED <<last_assistant_item, current_response_id>>
               ELSE /\ cl_out' = <<>>
                    /\ UNCHANGED <<last_tts_sent_at, response_start_timestamp,
                                   assistant_speaking, last_assistant_item,
                                   current_response_id>>
            /\ UNCHANGED <<latest_media_timestamp, client_recording>>
            /\ NoEntry
       ELSE IF m.type = "response.audio_transcript.done"
       THEN \* lines 251-264
            /\ IF Strip(m.transcript) # ""
               THEN add_transcript_entry(call_id, "assistant", m.transcript)
               ELSE NoEntry
            /\ up_out' = <<>> /\ cl_out' = <<>>
            /\ UNCHANGED session
       ELSE IF m.type = "input_audio_buffer.speech_started"
       THEN \* lines 267-279; each send raises when its peer is gone, and
            \* lines 299-300 catch it
            /\ IF BargeIn
               THEN IF ~UpstreamOpen
                    THEN /\ up_out' = <<>> /\ cl_out' = <<>>
                         /\ UNCHANGED session
                    ELSE /\ up_out' = InterruptUpstream
                         /\ IF ClientOpen
                            THEN /\ cl_out' = <<ClClear>>
                                 /\ last_assistant_item' = NoItem
                                 /\ response_start_timestamp' = None
                                 /\ assistant_speaking' = FALSE
                                 /\ UNCHANGED <<latest_media_timestamp, last_tts_sent_at,
                                                client_recording, current_response_id>>
                            ELSE /\ cl_out' = <<>>
                                 /\ UNCHANGED session
               ELSE /\ up_out' = <<>> /\ cl_out' = <<>>
                    /\ UNCHANGED session
            /\ NoEntry
       ELSE IF m.type = "conversation.item.input_audio_transcription.completed"
       THEN \* lines 282-294
            /\ IF Strip(m.transcript) # ""
               THEN add_transcript_entry(call_id, "user", m.transcript)
               ELSE NoEntry
            /\ up_out' = <<>> /\ cl_out' = <<>>
            /\ UNCHANGED session
       ELSE /\ up_out' = <<>> /\ cl_out' = <<>>
            /\ UNCHANGED session /\ NoEntry
    /\ Len(call_data'[call_id].transcript) <= MaxTranscript
    /\ upc' = IF OpenAIRaises(m) THEN AfterOpenAIError ELSE upc
    /\ UNCHANGED <<hpc, call_id, client_conn, openai_state, cpc, now, other, aside, active_calls,
                   complete_writes, complete_file, summary_requests, end_inv, end_calls>>

\* The upstream connection is closed and nothing is left to read.  The async
\* for of line 210 ends on a normal closure; otherwise ConnectionClosed reaches
\* lines 302-305, whose send_json raises out of the pump when the client is gone
\* (client_state.value is never 3 for a connected or disconnected client).
OpenAIGone ==
    /\ upc = "run"
    /\ openai_state = "CLOSED"
    /\ \/ upc' = "done" /\ cl_out' = <<>>
       \/ ClientOpen /\ upc' = "done" /\ cl_out' = <<ClError>>
       \/ ~ClientOpen /\ upc' = "raised" /\ cl_out' = <<>>
    /\ ev' = Ev("openai", "closed") /\ up_out' = <<>> /\ log_out' = <<>>
    /\ UNCHANGED <<hpc, call_id, client_conn, openai_state, cpc, session, now, other, aside, logger>>

(***************************************************************************)
(* Environment                                                             *)
(***************************************************************************)
ClientDisconnect ==
    /\ hpc \in {"connect", "configure", "gather", "finally"}
    /\ ClientOpen
    /\ client_conn' = "closed"
    /\ Quiet("env", "client_disconnect")
    /\ UNCHANGED <<hpc, call_id, openai_state, cpc, upc, session, now, other, aside, logger>>

UpstreamClose ==
    /\ UpstreamOpen
    /\ openai_state' = "CLOSED"
    /\ Quiet("env", "upstream_close")
    /\ UNCHANGED <<hpc, call_id, client_conn, cpc, upc, session, now, other, aside, logger>>

Tick ==
    /\ hpc = "gather"
    /\ now + TickMs <= MaxTicks * TickMs
    /\ now' = now + TickMs
    /\ Quiet("env", "tick")
    /\ UNCHANGED <<conn, session, other, aside, logger>>

(***************************************************************************)
(* A second connection.  The session state of lines 153-161, the two        *)
(* websockets and the pumps are locals of one call of handle_websocket;     *)
(* the event loop runs one handler at a time and changes handler only at an *)
(* await.  The variables above are those of the handler that runs, `other`  *)
(* holds those of the suspended one.  simple_call_logger and the clock are  *)
(* shared.                                                                  *)
(***************************************************************************)
Context ==
    [hpc |-> hpc, call_id |-> call_id, client_conn |-> client_conn,
     openai_state |-> openai_state, cpc |-> cpc, upc |-> upc,
     latest_media_timestamp |-> latest_media_timestamp,
     last_assistant_item |-> last_assistant_item,
     response_start_timestamp |-> response_start_timestamp,
     assistant_speaking |-> assistant_speaking,
     last_tts_sent_at |-> last_tts_sent_at,
     client_recording |-> client_recording,
     current_response_id |-> current_response_id,
     ws_inv |-> end_inv["ws"], ws_calls |-> end_calls["ws"]]

\* a connection that was not accepted yet
NotAccepted ==
    [hpc |-> "accept", call_id |-> "none", client_conn |-> "open",
     openai_state |-> "CONNECTING", cpc |-> "idle", upc |-> "idle",
     latest_media_timestamp |-> 0, last_assistant_item |-> NoItem,
     response_start_timestamp |-> None, assistant_speaking |-> FALSE,
     last_tts_sent_at |-> 0, client_recording |-> FALSE,
     current_response_id |-> NoItem, ws_inv |-> IdleInv, ws_calls |-> 0]

\* the session state is kept at module level: the handler that resumes finds
\* what the other handler left
Resumed_SharedSession ==
    [other EXCEPT !.latest_media_timestamp = latest_media_timestamp,
                  !.last_assistant_item = last_assistant_item,
                  !.response_start_timestamp = response_start_timestamp,
                  !.assistant_speaking = assistant_speaking,
                  !.last_tts_sent_at = last_tts_sent_at,
                  !.client_recording = client_recording,
                  !.current_response_id = current_response_id]

\* lines 153-161: the handler that resumes finds its own locals
Resumed == other

\* the running handler awaits and the event loop resumes the other one
Switch ==
    /\ other' = Context
    /\ hpc' = Resumed.hpc
    /\ call_id' = Resumed.call_id
    /\ client_conn' = Resumed.client_conn
    /\ openai_state' = Resumed.openai_state
    /\ cpc' = Resumed.cpc
    /\ upc' = Resumed.upc
    /\ latest_media_timestamp' = Resumed.latest_media_timestamp
    /\ last_assistant_item' = Resumed.last_assistant_item
    /\ response_start_timestamp' = Resumed.response_start_timestamp
    /\ assistant_speaking' = Resumed.assistant_speaking
    /\ last_tts_sent_at' = Resumed.last_tts_sent_at
    /\ client_recording' = Resumed.client_recording
    /\ current_response_id' = Resumed.current_response_id
    /\ end_inv' = [end_inv EXCEPT !["ws"] = Resumed.ws_inv]
    /\ end_calls' = [end_calls EXCEPT !["ws"] = Resumed.ws_calls]
    /\ Quiet("loop", "switch")
    /\ UNCHANGED <<now, aside, active_calls, call_data, complete_writes, complete_file,
                   transcript_file, summary_requests>>

(***************************************************************************)
(* The moving-request store, MovingAgent of moving_agent.py.  Its methods   *)
(* have no await: each call is one step.  A Python str is a TLA+ string,    *)
(* except the floors, which save_floors parses: they are sequences of       *)
(* characters.  An Optional field is None or Some(value).                   *)
(***************************************************************************)
RequestIds == {"r1", "r2"}         \* the uuids create_moving_request draws
Names == {"John Smith"}
Dates == {"Friday"}
Locations == {"Amsterdam", "Rotterdam"}
Volumes == {"boxes"}
Estimates == {"450-550"}
Floors == {<<"1", "s", "t">>, <<"3", "r", "d">>, <<"3", "r", "d", " ", "f", "l">>}

NoCallYet == [op |-> "none", id |-> "none", ret |-> None]
Call(o, i, r) == [op |-> o, id |-> i, ret |-> Some(r)]

\* MovingRequest(id=request_id, created_at=...), lines 10-26 and 43-46
MovingRequest(id) ==
    [id |-> id, created_at |-> "2024-01-01T00:00:00",
     client_name |-> None, move_date |-> None,
     from_location |-> None, to_location |-> None,
     volume_description |-> None, from_floor |-> None, to_floor |-> None,
     needs_lift |-> None, price_estimate |-> None,
     requires_on_site_check |-> None, status |-> "in_progress", notes |-> None]

\* `request_id in self.active_requests`
InStore(id) == id \in DOMAIN active_requests

\* dict assignment self.active_requests[id] = r, and attribute assignment on
\* the object the dict holds
Put(d, id, r) == [k \in DOMAIN d \cup {id} |-> IF k = id THEN r ELSE d[k]]

\* str.replace(a + b, ""): left to right, occurrences do not overlap
RECURSIVE Remove2(_, _, _)
Remove2(s, a, b) ==
    IF Len(s) < 2 THEN s
    ELSE IF s[1] = a /\ s[2] = b THEN Remove2(SubSeq(s, 3, Len(s)), a, b)
    ELSE <<s[1]>> \o Remove2(Tail(s), a, b)

\* line 93: .replace("st", "").replace("nd", "").replace("rd", "").replace("th", "")
WithoutSuffix(s) ==
    Remove2(Remove2(Remove2(Remove2(s, "s", "t"), "n", "d"), "r", "d"), "t", "h")

Digits == {"0", "1", "2", "3", "4", "5", "6", "7", "8", "9"}
DigitValue(c) ==
    CASE c = "0" -> 0 [] c = "1" -> 1 [] c = "2" -> 2 [] c = "3" -> 3 [] c = "4" -> 4
      [] c = "5" -> 5 [] c = "6" -> 6 [] c = "7" -> 7 [] c = "8" -> 8 [] c = "9" -> 9

RECURSIVE LStrip(_)
LStrip(s) == IF s # <<>> /\ s[1] = " " THEN LStrip(Tail(s)) ELSE s
RECURSIVE RStrip(_)
RStrip(s) == IF s # <<>> /\ s[Len(s)] = " " THEN RStrip(SubSeq(s, 1, Len(s) - 1)) ELSE s

RECURSIVE Decimal(_)
Decimal(s) == IF s = <<>> THEN 0 ELSE 10 * Decimal(SubSeq(s, 1, Len(s) - 1)) + DigitValue(s[Len(s)])

\* int(text): surrounding blanks are dropped, then digits only; None stands
\* for ValueError
ParseInt(s) ==
    LET t == RStrip(LStrip(s))
    IN  IF t # <<>> /\ \A i \in 1..Len(t) : t[i] \in Digits THEN Some(Decimal(t)) ELSE None

\* lines 91-98
NeedsLift(from_floor, to_floor) ==
    LET from_floor_num == ParseInt(WithoutSuffix(from_floor))
        to_floor_num == ParseInt(WithoutSuffix(to_floor))
    IN  IF from_floor_num = None \/ to_floor_num = None
        THEN TRUE
        ELSE from_floor_num[1] > 1 \/ to_floor_num[1] > 1

\* completion also leaves a note on the request
MarkCompleted_Noted(r) == [r EXCEPT !.status = "completed", !.notes = Some("completed")]

\* line 125
MarkCompleted(r) == [r EXCEPT !.status = "completed"]

Required == {"id", "created_at", "status"}                 \* the fields typed str
Flags == {"needs_lift", "requires_on_site_check"}          \* the fields typed Optional[bool]

\* json.dump of the value of field k of asdict(request): None is null, a bool
\* is true or false, a str is a JSON string
JsonValue(k, v) ==
    IF v = None THEN <<"null">>
    ELSE IF k \in Flags THEN (IF v[1] THEN <<"true">> ELSE <<"false">>)
    ELSE <<"string", v[1]>>

\* json.load of one value
PyValue(j) ==
    IF j[1] = "null" THEN None
    ELSE IF j[1] = "true" THEN Some(TRUE)
    ELSE IF j[1] = "false" THEN Some(FALSE)
    ELSE Some(j[2])

\* lines 128-130: json.dump(asdict(request), f)
Dump(r) ==
    [k \in DOMAIN r |-> IF k \in Required THEN JsonValue(k, Some(r[k])) ELSE JsonValue(k, r[k])]

\* lines 148-150: MovingRequest(**json.load(f))
Load(j) == [k \in DOMAIN j |-> IF k \in Required THEN PyValue(j[k])[1] ELSE PyValue(j[k])]

\* lines 136-138
get_current_request(id) == IF InStore(id) THEN Some(active_requests[id]) ELSE None

\* lines 144-151
load_request_from_file(id) ==
    IF id \in DOMAIN request_file THEN Some(Load(request_file[id])) ELSE None

\* a save_* or set_* method: the membership test, the assignments, the result
Update(op, id, r) ==
    /\ store_calls < MaxStoreCalls
    /\ store_calls' = store_calls + 1
    /\ IF InStore(id)
       THEN /\ active_requests' = Put(active_requests, id, r)
            /\ last_call' = Call(op, id, TRUE)
       ELSE /\ UNCHANGED active_requests
            /\ last_call' = Call(op, id, FALSE)
    /\ UNCHANGED <<request_file, relay, root>>

\* lines 41-49; uuid4 gives an id no request has
create_moving_request ==
    /\ store_calls < MaxStoreCalls
    /\ store_calls' = store_calls + 1
    /\ \E id \in RequestIds :
        /\ ~InStore(id)
        /\ active_requests' = Put(active_requests, id, MovingRequest(id))
        /\ last_call' = [op |-> "create_moving_request", id |-> id, ret |-> Some(MovingRequest(id))]
    /\ UNCHANGED <<request_file, relay, root>>

\* lines 51-57
save_client_name(id, name) ==
    Update("save_client_name", id,
           IF InStore(id) THEN [active_requests[id] EXCEPT !.client_name = Some(name)] ELSE None)

\* lines 59-65
save_move_date(id, date) ==
    Update("save_move_date", id,
           IF InStore(id) THEN [active_requests[id] EXCEPT !.move_date = Some(date)] ELSE None)

\* lines 67-74
save_locations(id, from_location, to_location) ==
    Update("save_locations", id,
           IF InStore(id)
           THEN [active_requests[id] EXCEPT !.from_location = Some(from_location),
                                            !.to_location = Some(to_location)]
           ELSE None)

\* lines 76-82
save_volume(id, volume) ==
    Update("save_volume", id,
           IF InStore(id) THEN [active_requests[id] EXCEPT !.volume_description = Some(volume)]
           ELSE None)

\* lines 84-103
save_floors(id, from_floor, to_floor) ==
    Update("save_floors", id,
           IF InStore(id)
           THEN [active_requests[id] EXCEPT !.from_floor = Some(from_floor),
                                            !.to_floor = Some(to_floor),
                                            !.needs_lift = Some(NeedsLift(from_floor, to_floor))]
           ELSE None)

\* lines 105-111
set_price_estimate(id, estimate) ==
    Update("set_price_estimate", id,
           IF InStore(id) THEN [active_requests[id] EXCEPT !.price_estimate = Some(estimate)]
           ELSE None)

\* lines 113-119
set_requires_on_site_check(id, requires_check) ==
    Update("set_requires_on_site_check", id,
           IF InStore(id)
           THEN [active_requests[id] EXCEPT !.requires_on_site_check = Some(requires_check)]
           ELSE None)

\* lines 121-134
complete_request(id) ==
    /\ store_calls < MaxStoreCalls
    /\ store_calls' = store_calls + 1
    /\ IF InStore(id)
       THEN /\ active_requests' = Put(active_requests, id, MarkCompleted(active_requests[id]))
            /\ request_file' = Put(request_file, id, Dump(MarkCompleted(active_requests[id])))
            /\ last_call' = Call("complete_request", id, TRUE)
       ELSE /\ UNCHANGED <<active_requests, request_file>>
            /\ last_call' = Call("complete_request", id, FALSE)
    /\ UNCHANGED <<relay, root>>

(***************************************************************************)
(* The relay of src/main.py, handle_media_stream with greeting protection   *)
(* and buffered commits.  It has no call logger.  The model starts where    *)
(* line 381 has started the two pumps.  Its clock is time.time(), in ms.    *)
(***************************************************************************)
BufferCommit == [type |-> "input_audio_buffer.commit"]
ThreadedItem(text, parent) ==
    [type |-> "conversation.item.create", text |-> text, parent_id |-> parent]

\* LOG_EVENT_TYPES of src/main.py, lines 65-71
ROOT_LOG_EVENT_TYPES == {"error", "response.content.done", "rate_limits.updated",
    "response.done", "input_audio_buffer.committed",
    "input_audio_buffer.speech_stopped", "input_audio_buffer.speech_started",
    "session.created", "conversation.item.audio_transcription.completed",
    "input_audio_buffer.appended"}

RootOpenAIMessages ==
    {[wire |-> w, type |-> "", item_id |-> NoItem, has_delta |-> FALSE, transcript |-> ""] :
        w \in {"bad_json", "no_type"}}
    \cup {[wire |-> "ok", type |-> t, item_id |-> NoItem, has_delta |-> FALSE, transcript |-> ""] :
        t \in {"error", "response.done", "input_audio_buffer.appended",
               "input_audio_buffer.speech_started"}}
    \cup {[wire |-> "ok", type |-> "response.audio.delta", item_id |-> i,
           has_delta |-> TRUE, transcript |-> ""] : i \in {"item_A", NoItem}}
    \cup {[wire |-> "ok", type |-> "response.audio.delta", item_id |-> NoItem,
           has_delta |-> FALSE, transcript |-> ""]}
    \cup {[wire |-> "ok", type |-> "conversation.item.audio_transcription.completed",
           item_id |-> NoItem, has_delta |-> FALSE, transcript |-> x] : x \in {" ", "hello"}}

\* lines 157-174; greeting_start_time of line 164 is shadowed by the local of
\* send_to_client (line 243 does not declare it nonlocal), which is unbound
\* (None here) until line 288 runs
InitRootState ==
    /\ conversation_started = FALSE
    /\ last_assistant_item_id = NoItem
    /\ waiting_for_response = FALSE
    /\ audio_chunks_since_commit = 0
    /\ audio_appended = FALSE
    /\ response_in_progress = FALSE
    /\ greeting_start_time = None

\* what the relay of src/main.py does not have or does not touch
RootFrame ==
    /\ log_out' = <<>>
    /\ UNCHANGED <<hpc, call_id, client_conn, last_assistant_item, assistant_speaking,
                   last_tts_sent_at, client_recording, current_response_id, other,
                   logger, store>>

\* the flag the test of line 202 reads: line 198 has just cleared it, and no
\* await lies between the two lines
AppendedAtTest == FALSE

\* receive_from_client, lines 181-239: one message of iter_text
RootClientMessage(m) ==
    /\ hpc = "gather" /\ cpc = "run"
    /\ ClientOpen
    /\ ev' = Ev("client", EvType(m))
    /\ cl_out' = <<>>
    /\ IF ClientMessageRaises(m)
       THEN \* json.loads or data['type'] raises; line 236 catches only WebSocketDisconnect
            /\ cpc' = "raised"
            /\ up_out' = <<>>
            /\ UNCHANGED <<latest_media_timestamp, audio_chunks_since_commit, audio_appended>>
       ELSE IF m.type = "audio" /\ UpstreamOpen
       THEN \* lines 187-206
            /\ audio_chunks_since_commit < MaxChunks
            /\ latest_media_timestamp' = m.timestamp
            /\ cpc' = cpc
            /\ IF audio_chunks_since_commit + 1 >= CommitChunks /\ AppendedAtTest
               THEN /\ up_out' = <<AudioAppend(m.audio), BufferCommit>>
                    /\ audio_chunks_since_commit' = 0
                    /\ audio_appended' = FALSE
               ELSE /\ up_out' = <<AudioAppend(m.audio)>>
                    /\ audio_chunks_since_commit' = audio_chunks_since_commit + 1
                    /\ audio_appended' = FALSE
       ELSE IF m.type = "start"
       THEN \* lines 208-221; response_start_timestamp of line 210 is a local
            /\ latest_media_timestamp' = 0
            /\ audio_chunks_since_commit' = 0
            /\ audio_appended' = FALSE
            /\ IF UpstreamOpen
               THEN up_out' = <<ItemCreate>> /\ cpc' = cpc
               ELSE up_out' = <<>> /\ cpc' = "raised"
       ELSE IF m.type = "stop" /\ UpstreamOpen
                /\ audio_chunks_since_commit > 0 /\ audio_appended
       THEN \* lines 222-229
            /\ up_out' = <<BufferCommit>>
            /\ audio_chunks_since_commit' = 0
            /\ audio_appended' = FALSE
            /\ UNCHANGED <<cpc, latest_media_timestamp>>
       ELSE /\ up_out' = <<>>
            /\ UNCHANGED <<cpc, latest_media_timestamp, audio_chunks_since_commit,
                           audio_appended>>
    /\ RootFrame
    /\ UNCHANGED <<openai_state, upc, now, response_start_timestamp, conversation_started,
                   last_assistant_item_id, waiting_for_response, response_in_progress,
                   greeting_start_time>>

\* lines 185 and 236-239: the client is gone, the pump ends
RootClientGone ==
    /\ hpc = "gather" /\ cpc = "run"
    /\ ~ClientOpen
    /\ cpc' = "done"
    /\ \/ UNCHANGED openai_state
       \/ openai_state' = "CLOSED"
    /\ ev' = Ev("client", "disconnect") /\ up_out' = <<>> /\ cl_out' = <<>>
    /\ RootFrame
    /\ UNCHANGED <<upc, now, latest_media_timestamp, response_start_timestamp, root>>

\* interruption is never suppressed
GreetingProtected_Never == FALSE

\* line 301, reached with greeting_start_time bound
GreetingProtected ==
    greeting_start_time # None /\ now - greeting_start_time[1] < GreetingWindowMs

\* the handler leaves everything as it was and sends nothing
RootIgnored ==
    /\ up_out' = <<>> /\ cl_out' = <<>>
    /\ UNCHANGED <<response_start_timestamp, root>>

\* send_to_client, lines 245-338: one message of the async for
RootOpenAIMessage(m) ==
    /\ hpc = "gather" /\ upc = "run"
    /\ openai_state \in {"OPEN", "CLOSED"}
    /\ ev' = Ev("openai", EvType(m))
    /\ IF OpenAIMessageRaises(m)
       THEN \* lines 334-338
            RootIgnored
       ELSE IF m.type \in ROOT_LOG_EVENT_TYPES /\ m.type = "response.done"
       THEN \* lines 254-260
            /\ response_start_timestamp' = None
            /\ response_in_progress' = FALSE
            /\ waiting_for_response' = FALSE
            /\ up_out' = <<>> /\ cl_out' = <<>>
            /\ UNCHANGED <<conversation_started, last_assistant_item_id,
                           audio_chunks_since_commit, audio_appended, greeting_start_time>>
       ELSE IF m.type \in ROOT_LOG_EVENT_TYPES /\ m.type = "input_audio_buffer.appended"
       THEN \* lines 261-264
            /\ audio_appended' = TRUE
            /\ up_out' = <<>> /\ cl_out' = <<>>
            /\ UNCHANGED <<response_start_timestamp, conversation_started,
                           last_assistant_item_id, waiting_for_response,
                           audio_chunks_since_commit, response_in_progress,
                           greeting_start_time>>
       ELSE IF m.type = "response.audio.delta" /\ m.has_delta
       THEN \* lines 266-293; send_json raises with the client gone (line 337)
            IF ~ClientOpen
            THEN RootIgnored
            ELSE /\ cl_out' = <<ClAudio>> /\ up_out' = <<>>
                 /\ IF response_start_timestamp = None
                    THEN /\ response_start_timestamp' = Some(latest_media_timestamp)
                         /\ response_in_progress' = TRUE
                         /\ waiting_for_response' = TRUE
                         /\ conversation_started' = TRUE
                         /\ greeting_start_time' =
                                IF conversation_started THEN greeting_start_time ELSE Some(now)
                    ELSE UNCHANGED <<response_start_timestamp, response_in_progress,
                                     waiting_for_response, conversation_started,
                                     greeting_start_time>>
                 /\ last_assistant_item_id' =
                        IF m.item_id # NoItem THEN m.item_id ELSE last_assistant_item_id
                 /\ UNCHANGED <<audio_chunks_since_commit, audio_appended>>
       ELSE IF m.type = "input_audio_buffer.speech_started"
       THEN \* lines 296-320
            IF greeting_start_time = None
            THEN \* line 301 reads the unbound local: UnboundLocalError, line 337
                 RootIgnored
            ELSE IF GreetingProtected
            THEN \* lines 302-303
                 RootIgnored
            ELSE IF response_in_progress \/ waiting_for_response
            THEN IF ~UpstreamOpen
                 THEN \* line 310 raises
                      RootIgnored
                 ELSE IF ~ClientOpen
                 THEN \* line 311 raises
                      /\ up_out' = <<ResponseCancel>> /\ cl_out' = <<>>
                      /\ UNCHANGED <<response_start_timestamp, root>>
                 ELSE /\ up_out' = <<ResponseCancel>> /\ cl_out' = <<ClClear>>
                      /\ response_start_timestamp' = None
                      /\ response_in_progress' = FALSE
                      /\ waiting_for_response' = FALSE
                      /\ UNCHANGED <<conversation_started, last_assistant_item_id,
                                     audio_chunks_since_commit, audio_appended,
                                     greeting_start_time>>
            ELSE RootIgnored
       ELSE IF m.type = "conversation.item.audio_transcription.completed"
                /\ Strip(m.transcript) # ""
                /\ ~waiting_for_response /\ last_assistant_item_id # NoItem
                /\ UpstreamOpen
       THEN \* lines 323-332 and 349-379
            /\ up_out' = <<ThreadedItem(m.transcript, last_assistant_item_id)>>
            /\ cl_out' = <<>>
            /\ UNCHANGED <<response_start_timestamp, root>>
       ELSE RootIgnored
    /\ RootFrame
    /\ UNCHANGED <<openai_state, cpc, upc, now, latest_media_timestamp>>

\* lines 245 and 340-347: the upstream is gone, the pump ends
RootOpenAIGone ==
    /\ hpc = "gather" /\ upc = "run"
    /\ openai_state = "CLOSED"
    /\ \/ upc' = "done" /\ cl_out' = <<>>
       \/ ClientOpen /\ upc' = "done" /\ cl_out' = <<ClError>>
       \/ ~ClientOpen /\ upc' = "raised" /\ cl_out' = <<>>
    /\ ev' = Ev("openai", "closed") /\ up_out' = <<>>
    /\ RootFrame
    /\ UNCHANGED <<openai_state, cpc, now, latest_media_timestamp,
                   response_start_timestamp, root>>

\* time.time() advances
RootTick ==
    /\ hpc = "gather"
    /\ now + GreetingTickMs <= MaxGreetingTicks * GreetingTickMs
    /\ now' = now + GreetingTickMs
    /\ Quiet("env", "tick")
    /\ UNCHANGED <<conn, session, other, aside, logger>>

(***************************************************************************)
(* Specification                                                           *)
(***************************************************************************)
Init ==
    /\ hpc = "accept"
    /\ call_id = "none"
    /\ client_conn = "open"
    /\ openai_state = "CONNECTING"
    /\ cpc = "idle" /\ upc = "idle"
    /\ latest_media_timestamp = 0
    /\ last_assistant_item = NoItem
    /\ response_start_timestamp = None
    /\ assistant_speaking = FALSE
    /\ last_tts_sent_at = 0
    /\ client_recording = FALSE
    /\ current_response_id = NoItem
    /\ now = 0
    /\ other = NotAccepted
    /\ active_calls = {}
    /\ call_data = [i \in CallIds |-> NoCall]
    /\ complete_writes = [i \in CallIds |-> 0]
    /\ complete_file = [i \in CallIds |-> <<>>]
    /\ transcript_file = [i \in CallIds |-> <<>>]
    /\ summary_requests = 0
    /\ end_inv = [i \in Invokers |-> IdleInv]
    /\ end_calls = [i \in Invokers |-> 0]
    /\ ev = IdleEv
    /\ up_out = <<>>
    /\ cl_out = <<>>
    /\ log_out = <<>>
    /\ active_requests = <<>>
    /\ request_file = <<>>
    /\ store_calls = 0
    /\ last_call = NoCallYet
    /\ InitRootState

Handler == Accept \/ Connect \/ Configure \/ Finally \/ HandlerExit

Transport == ClientGone \/ OpenAIGone \/ ClientDisconnect \/ UpstreamClose

\* The relay and its turn taking: every client message, every upstream event
\* that drives the turn state, the clock.
Next ==
    \/ Handler
    \/ Transport
    \/ \E m \in ClientMessages : ClientMessage(m)
    \/ \E m \in TurnMessages : OpenAIMessage(m)
    \/ Tick

Spec == Init /\ [][Next]_vars

\* The life of a call: the handler, the pumps' ends, the transcript events, the
\* end-call endpoint and the summarization requests.
NextCalls ==
    \/ Handler
    \/ Transport
    \/ \E m \in CallClientMessages : ClientMessage(m)
    \/ \E m \in TranscriptMessages : OpenAIMessage(m)
    \/ \E id \in CallIds : HttpEndCall(id)
    \/ \E inv \in Invokers, o \in SummaryOutcomes : SummaryReturn(inv, o)
    \/ \E inv \in Invokers, o \in ExtractOutcomes : ExtractReturn(inv, o)

SpecCalls == Init /\ [][NextCalls]_vars

\* Two connections at once: the start of both handlers, the messages of a
\* turn with its interruption, the clock.
TwoClientMessages ==
    {m \in ClientMessages : m.type = "start" \/ (m.type = "audio" /\ m.timestamp = 1000)}
TwoOpenAIMessages ==
    {m \in OpenAIMessages :
        /\ m.wire = "ok"
        /\ \/ m.type \in {"response.done", "input_audio_buffer.speech_started"}
           \/ m.type = "response.audio.delta" /\ m.has_delta /\ m.item_id = "item_A"}

NextTwo ==
    \/ Accept
    \/ Connect
    \/ Configure
    \/ \E m \in TwoClientMessages : ClientMessage(m)
    \/ \E m \in TwoOpenAIMessages : OpenAIMessage(m)
    \/ Tick
    \/ Switch

SpecTwo == Init /\ [][NextTwo]_vars

\* Two connections at once and their calls: the start of both handlers and
\* the transcript events of both speakers.
TwoTranscriptMessages ==
    {m \in OpenAIMessages :
        /\ m.wire = "ok"
        /\ m.type \in {"response.audio_transcript.done",
                       "conversation.item.input_audio_transcription.completed"}}

NextTwoCalls ==
    \/ Accept
    \/ Connect
    \/ Configure
    \/ \E m \in TwoTranscriptMessages : OpenAIMessage(m)
    \/ Switch

SpecTwoCalls == Init /\ [][NextTwoCalls]_vars

\* The moving-request store: every method, on ids in the store and not.
NextStore ==
    \/ create_moving_request
    \/ \E id \in RequestIds, name \in Names : save_client_name(id, name)
    \/ \E id \in RequestIds, date \in Dates : save_move_date(id, date)
    \/ \E id \in RequestIds : save_locations(id, "Amsterdam", "Rotterdam")
    \/ \E id \in RequestIds, volume \in Volumes : save_volume(id, volume)
    \/ \E id \in RequestIds, f \in Floors, t \in Floors : save_floors(id, f, t)
    \/ \E id \in RequestIds, estimate \in Estimates : set_price_estimate(id, estimate)
    \/ \E id \in RequestIds, b \in BOOLEAN : set_requires_on_site_check(id, b)
    \/ \E id \in RequestIds : complete_request(id)

SpecStore == Init /\ [][NextStore]_vars

\* the state where handle_media_stream of src/main.py has started its pumps
InitRoot ==
    /\ hpc = "gather"
    /\ call_id = "none"
    /\ client_conn = "open"
    /\ openai_state = "OPEN"
    /\ cpc = "run" /\ upc = "run"
    /\ latest_media_timestamp = 0
    /\ last_assistant_item = NoItem
    /\ response_start_timestamp = None
    /\ assistant_speaking = FALSE
    /\ last_tts_sent_at = 0
    /\ client_recording = FALSE
    /\ current_response_id = NoItem
    /\ now = 0
    /\ other = NotAccepted
    /\ active_calls = {}
    /\ call_data = [i \in CallIds |-> NoCall]
    /\ complete_writes = [i \in CallIds |-> 0]
    /\ complete_file = [i \in CallIds |-> <<>>]
    /\ transcript_file = [i \in CallIds |-> <<>>]
    /\ summary_requests = 0
    /\ end_inv = [i \in Invokers |-> IdleInv]
    /\ end_calls = [i \in Invokers |-> 0]
    /\ ev = IdleEv
    /\ up_out = <<>>
    /\ cl_out = <<>>
    /\ log_out = <<>>
    /\ active_requests = <<>>
    /\ request_file = <<>>
    /\ store_calls = 0
    /\ last_call = NoCallYet
    /\ InitRootState

\* The relay of src/main.py: its two pumps, the transports, the clock.
NextRoot ==
    \/ \E m \in ClientMessages : RootClientMessage(m)
    \/ \E m \in RootOpenAIMessages : RootOpenAIMessage(m)
    \/ RootClientGone
    \/ RootOpenAIGone
    \/ ClientDisconnect
    \/ UpstreamClose
    \/ RootTick

SpecRoot == InitRoot /\ [][NextRoot]_vars

(***************************************************************************)
(* Properties                                                              *)
(***************************************************************************)
SpeechStarted == ev.src = "openai" /\ ev.type = "input_audio_buffer.speech_started"
Range(q) == {q[i] : i \in 1..Len(q)}

\* the truncate-at-offset control message of the upstream API
ItemTruncate(item, ms) ==
    [type |-> "conversation.item.truncate", item_id |-> item, audio_end_ms |-> ms]
IsTruncate(msg) == msg.type = "conversation.item.truncate"

\* C1: a user-speech-started event accepted while the assistant is responding,
\* with last_assistant_item set and both transports open, sends upstream a
\* truncate of that item at latest_media_timestamp - response_start_timestamp
\* and then a response.cancel, and sends clear to the client.
C1_TruncateCancelClear ==
    [][ (SpeechStarted' /\ client_recording /\ assistant_speaking
            /\ (now - last_tts_sent_at) > EchoWindowMs
            /\ last_assistant_item # NoItem /\ response_start_timestamp # None
            /\ UpstreamOpen /\ ClientOpen)
        => /\ up_out' = <<ItemTruncate(last_assistant_item,
                            latest_media_timestamp - response_start_timestamp[1]),
                          ResponseCancel>>
           /\ cl_out' = <<ClClear>> ]_vars

\* C2: a user-speech-started event sends a cancel or a clear, or changes a
\* session field, only if it is processed while client_recording is true, the
\* assistant is speaking and more than the echo window has passed since the
\* last forwarded audio chunk.
C2_InterruptOnlyPastGuard ==
    [][ (SpeechStarted'
            /\ ~(client_recording /\ assistant_speaking
                 /\ (now - last_tts_sent_at) > EchoWindowMs))
        => /\ up_out' = <<>>
           /\ cl_out' = <<>>
           /\ UNCHANGED session ]_vars

\* a speech-started event was processed inside the echo window while recording
\* and responding, and was ignored
C2_Witness ==
    /\ SpeechStarted
    /\ client_recording /\ assistant_speaking
    /\ (now - last_tts_sent_at) <= EchoWindowMs
    /\ up_out = <<>> /\ cl_out = <<>>

\* C3: a user-speech-started event processed while the turn state is IDLE sends
\* no truncate and no cancel upstream and no clear to the client.
C3_IdleSendsNothing ==
    [][ (SpeechStarted' /\ ~assistant_speaking)
        => /\ \A msg \in Range(up_out') : msg # ResponseCancel /\ ~IsTruncate(msg)
           /\ ClClear \notin Range(cl_out') ]_vars

\* a speech-started event was processed in IDLE, with the client recording and
\* the echo window long past
C3_Witness ==
    /\ SpeechStarted
    /\ ~assistant_speaking /\ response_start_timestamp = None
    /\ client_recording
    /\ (now - last_tts_sent_at) > EchoWindowMs
    /\ up_out = <<>> /\ cl_out = <<>>

\* C4: after a response-completed event is processed the assistant is not
\* speaking and response_start_timestamp is unset.
C4_DoneEndsIdle ==
    (ev.src = "openai" /\ ev.type = "response.done")
        => (~assistant_speaking /\ response_start_timestamp = None)

\* audio deltas of an item were forwarded and the completion event came
C4_Witness ==
    /\ ev.src = "openai" /\ ev.type = "response.done"
    /\ last_assistant_item # NoItem
    /\ now > last_tts_sent_at
    /\ ~assistant_speaking /\ response_start_timestamp = None

\* C5: at every confirmed interruption latest_media_timestamp -
\* response_start_timestamp, the elapsed time of the response, is not negative.
C5_ElapsedNotNegative ==
    [][ (SpeechStarted' /\ client_recording /\ assistant_speaking
            /\ (now - last_tts_sent_at) > EchoWindowMs
            /\ response_start_timestamp # None
            /\ UpstreamOpen /\ ClientOpen)
        => latest_media_timestamp - response_start_timestamp[1] >= 0 ]_vars

\* C6: once the pumps were started, the handler invokes end_call_and_summarize
\* for its call id exactly once: never twice, and not at all before the pumps
\* ended; the handler does not finish without it, whether a pump raised or not.
C6_EndCallOnceOnTeardown ==
    /\ end_calls["ws"] <= 1
    /\ hpc \in {"finally", "done"} <=> end_calls["ws"] = 1
    /\ end_calls["ws"] = 1 => end_inv["ws"].id = call_id /\ GatherEnds

\* the upstream pump raised and the handler finished through the cleanup
C6_Witness ==
    /\ hpc = "done"
    /\ upc = "raised"
    /\ end_calls["ws"] = 1
    /\ end_inv["ws"].id = call_id

\* C7: when the handler has ended, normally or by an exception, the record
\* start_call created is no longer active and was written exactly once.
C7_RecordFinalizedOnEnd ==
    (hpc \in {"done", "failed"} /\ call_id # "none")
        => (call_id \notin active_calls /\ complete_writes[call_id] = 1)

\* C8: an end_call_and_summarize begun after one on the same id has completed
\* returns "Call not found", issues no request and writes nothing.
EndCallCompleted(id) ==
    /\ complete_writes[id] > 0
    /\ \A inv \in Invokers :
          end_inv[inv].pc \in {"summary", "extract"} => end_inv[inv].id # id
EndCallBegins(inv, id) ==
    /\ end_calls'[inv] = end_calls[inv] + 1
    /\ end_inv'[inv].id = id

C8_EndCallIdempotent ==
    [][ \A inv \in Invokers, id \in CallIds :
          (EndCallBegins(inv, id) /\ EndCallCompleted(id))
          => /\ end_inv'[inv].pc = "returned"
             /\ end_inv'[inv].result = "Call not found"
             /\ summary_requests' = summary_requests
             /\ complete_writes' = complete_writes
             /\ call_data' = call_data ]_vars

\* the endpoint was called on a call that had been ended with a summary
C8_Witness ==
    /\ ev = Ev("http", "end_call")
    /\ end_inv["http"].id = "c1"
    /\ end_inv["http"].result = "Call not found"
    /\ complete_writes["c1"] = 1
    /\ summary_requests = 2
    /\ call_data["c1"].status = "completed"

\* C9: after a malformed client message (invalid JSON, missing or unknown type)
\* receive_from_client is still running and the session is unchanged.
C9_MalformedClientNotFatal ==
    [][ ((ev.src = "client" /\ ev.type \in {"bad_json", "no_type", "ping"})'
            /\ cpc = "run")
        => (cpc' = "run" /\ UNCHANGED session) ]_vars

\* C10: an upstream message that is malformed or unrecognized, or whose
\* processing raised, leaves send_to_client running; a malformed or
\* unrecognized one changes neither the session nor the call logger.
C10_UpstreamErrorsLocal ==
    [][ ((ev.src = "openai" /\ ev.type # "closed")' /\ upc = "run")
        => /\ upc' = "run"
           /\ ev'.type \in {"bad_json", "no_type", "session.created"}
                => UNCHANGED <<session, logger>> ]_vars

\* the clear of an interruption could not be sent and the pump runs on
C10_Witness ==
    /\ SpeechStarted
    /\ up_out = <<ResponseCancel>> /\ cl_out = <<>>
    /\ upc = "run"
    /\ assistant_speaking

\* C11: for an error event of the upstream API, processed with the client
\* connected, send_to_client sends the client one error notice and both pumps
\* and both connections stay as they were.
C11_ErrorForwarded ==
    [][ ((ev.src = "openai" /\ ev.type = "error")' /\ upc = "run" /\ ClientOpen)
        => /\ cl_out' = <<ClError>>
           /\ upc' = "run" /\ cpc' = cpc
           /\ UNCHANGED <<hpc, client_conn, openai_state>> ]_vars

\* C12: once the upstream connection has closed while the pumps are gathered
\* and the client is still connected, the relay has a step of its own towards
\* the teardown: the upstream pump can end, or the handler can reach its
\* cleanup and leave, without any message or disconnect of the client.
RelayStep == OpenAIGone \/ Finally \/ HandlerExit

C12_UpstreamCloseTearsDown ==
    (hpc = "gather" /\ openai_state = "CLOSED" /\ ClientOpen) => ENABLED RelayStep

\* C13: when receive_from_client has ended on the disconnect of the client,
\* openai_ws is closed.
C13_ClientGoneClosesUpstream ==
    cpc = "done" => openai_state = "CLOSED"

\* C14: when the cleanup runs and when the handler has returned, both pumps
\* have ended; after the handler ended, openai_ws is not open.
C14_BothPumpsEndedAtCleanup ==
    /\ hpc \in {"finally", "done"}
          => (cpc \in {"done", "raised"} /\ upc \in {"done", "raised"})
    /\ hpc \in {"done", "failed"} => ~UpstreamOpen

\* C15: once last_assistant_item is set, a step changes it only if the step
\* handles an audio delta, and then to an item id; no interruption and no
\* response.done clears it.
C15_LastItemNeverCleared ==
    [][ (last_assistant_item # NoItem /\ last_assistant_item' # last_assistant_item)
        => /\ (ev.src = "openai" /\ ev.type = "response.audio.delta")'
           /\ last_assistant_item' \in ItemIds ]_vars

\* C16: a confirmed interruption whose cancel cannot be sent, the upstream being
\* closed, leaves send_to_client running with the assistant not speaking and
\* response_start_timestamp unset.
C16_FailedCancelStillIdle ==
    [][ (SpeechStarted' /\ upc = "run" /\ BargeIn /\ ~UpstreamOpen)
        => /\ upc' = "run"
           /\ ~assistant_speaking'
           /\ response_start_timestamp' = None ]_vars

\* C17: after a start message processed with the upstream open,
\* response_start_timestamp and last_assistant_item are unset,
\* latest_media_timestamp is 0, and the step sent upstream exactly one
\* conversation.item.create followed by one response.create.
C17_StartResetsAndGreets ==
    [][ ((ev.src = "client" /\ ev.type = "start")' /\ cpc = "run" /\ UpstreamOpen)
        => /\ response_start_timestamp' = None
           /\ last_assistant_item' = NoItem
           /\ latest_media_timestamp' = 0
           /\ up_out' = <<ItemCreate, ResponseCreate>> ]_vars

\* C18: client_recording is false initially; a step that processes a start
\* message leaves it true, one that processes a stop message leaves it false,
\* and every other step, every upstream event among them, leaves it as it was.
C18_RecordingFollowsStartStop ==
    /\ ~client_recording
    /\ [][ IF (ev.src = "client" /\ ev.type = "start")' THEN client_recording'
           ELSE IF (ev.src = "client" /\ ev.type = "stop")' THEN ~client_recording'
           ELSE client_recording' = client_recording ]_vars

\* upstream events up to the end of a response were processed after a start,
\* and the client is still recording
C18_Witness ==
    /\ ev = Ev("openai", "response.done")
    /\ client_recording
    /\ last_assistant_item # NoItem

\* the entries of the add_transcript_entry calls made on id, in call order
EntriesFor(calls, id) ==
    LET sel == SelectSeq(calls, LAMBDA c : c.id = id)
    IN  [i \in 1..Len(sel) |-> [speaker |-> sel[i].speaker, text |-> sel[i].text]]

\* C19: every step extends the transcript file of a call by exactly the entries
\* of the add_transcript_entry calls it made on that call while active, in call
\* order, and by nothing else; the transcript of a finalized record is the
\* content of the transcript file.
C19_TranscriptInCallOrder ==
    /\ [](\A id \in CallIds :
            complete_file[id] # <<>>
                => complete_file[id][1].transcript = transcript_file[id])
    /\ [][ \A id \in CallIds :
            transcript_file'[id] =
                transcript_file[id] \o (IF id \in active_calls
                                        THEN EntriesFor(log_out', id) ELSE <<>>) ]_vars

\* a call was finalized with an entry of the user followed by one of the
\* assistant
C19_Witness ==
    /\ complete_file["c1"] # <<>>
    /\ Len(transcript_file["c1"]) = 2
    /\ transcript_file["c1"][1].speaker = "user"
    /\ transcript_file["c1"][2].speaker = "assistant"
    /\ complete_file["c1"][1].transcript = transcript_file["c1"]

\* C20: a step that calls add_transcript_entry on an id that is not in
\* active_calls changes no record, no transcript file and no finalized record,
\* and the caller runs on.
C20_AppendUnknownIsNoOp ==
    [][ (log_out' # <<>> /\ \A i \in 1..Len(log_out') : log_out'[i].id \notin active_calls)
        => /\ UNCHANGED <<active_calls, call_data, transcript_file, complete_file,
                          complete_writes>>
           /\ upc' = "run" ]_vars

\* the call was ended through the endpoint while the pumps ran, and an entry
\* for it arrived afterwards
C20_Witness ==
    /\ log_out # <<>>
    /\ log_out[1].id = call_id
    /\ call_id \notin active_calls
    /\ call_data[call_id].status = "completed"
    /\ complete_writes[call_id] = 1
    /\ upc = "run"

\* C21: end_call_and_summarize on an active call without transcript entries
\* returns "No conversation recorded.", writes a record with that summary and
\* the empty-field structured data, and issues no request.
C21_EmptyCallPlaceholders ==
    [][ \A inv \in Invokers, id \in CallIds :
          (EndCallBegins(inv, id) /\ id \in active_calls /\ call_data[id].transcript = <<>>)
          => /\ summary_requests' = summary_requests
             /\ end_inv'[inv].pc = "returned"
             /\ end_inv'[inv].result = "No conversation recorded."
             /\ complete_file'[id] # <<>>
             /\ complete_file'[id][1].summary = "No conversation recorded."
             /\ complete_file'[id][1].structured_data = EmptyStructured ]_vars

\* the handler ended a call nobody spoke in
C21_Witness ==
    /\ ev = Ev("handler", "finally")
    /\ end_inv["ws"].result = "No conversation recorded."
    /\ complete_file[call_id] # <<>>
    /\ complete_file[call_id][1].transcript = <<>>
    /\ summary_requests = 0

\* C22: whatever the summary request yields, its result is the summary text or
\* one of the two failure placeholders and the extraction request is issued
\* next; whatever the extraction request yields, the record is written as
\* completed with the summary obtained before and with the extracted data or
\* the empty-field placeholder, the call is no longer active, and the
\* invocation returns that summary if the call was still active.
SummaryTexts == {"SUMMARY", "Summary generation failed.",
                 "Summary generation failed due to technical error."}

C22_RequestFailureDegrades ==
    [][ \A inv \in Invokers :
          LET id == end_inv[inv].id IN
          /\ (end_inv[inv].pc = "summary" /\ end_inv'[inv].pc # "summary")
                => /\ end_inv'[inv].pc = "extract"
                   /\ end_inv'[inv].result \in SummaryTexts
                   /\ summary_requests' = summary_requests + 1
          /\ (end_inv[inv].pc = "extract" /\ end_inv'[inv].pc # "extract")
                => /\ complete_writes'[id] = complete_writes[id] + 1
                   /\ complete_file'[id] # <<>>
                   /\ complete_file'[id][1].status = "completed"
                   /\ complete_file'[id][1].summary = end_inv[inv].result
                   /\ complete_file'[id][1].summary \in SummaryTexts
                   /\ complete_file'[id][1].structured_data \in {"DATA", EmptyStructured}
                   /\ id \notin active_calls'
                   /\ id \in active_calls
                        => /\ end_inv'[inv].pc = "returned"
                           /\ end_inv'[inv].result = end_inv[inv].result ]_vars

\* the summary request failed, the extraction succeeded, and the call ended
C22_Witness ==
    /\ ev = Ev("logger", "extract_return")
    /\ end_inv["ws"].pc = "returned"
    /\ end_inv["ws"].result = "Summary generation failed."
    /\ complete_file[call_id] # <<>>
    /\ complete_file[call_id][1].structured_data = "DATA"
    /\ complete_file[call_id][1].status = "completed"
    /\ call_id \notin active_calls

\* C23: end_call_and_summarize on an active call with fewer than
\* MIN_TRANSCRIPT_ENTRIES_FOR_PROCESSING entries issues no request and ends the
\* call with the placeholder summary.
MIN_TRANSCRIPT_ENTRIES_FOR_PROCESSING == 2

C23_RequestsOnlyAboveMinimum ==
    [][ \A inv \in Invokers, id \in CallIds :
          (EndCallBegins(inv, id) /\ id \in active_calls
              /\ Len(call_data[id].transcript) < MIN_TRANSCRIPT_ENTRIES_FOR_PROCESSING)
          => /\ summary_requests' = summary_requests
             /\ end_inv'[inv].result = "No conversation recorded." ]_vars

DeltaStep == ev.src = "openai" /\ ev.type = "response.audio.delta"
DoneStep == ev.src = "openai" /\ ev.type = "response.done"

\* the last step was a confirmed interruption: cancel and clear were sent
JustInterrupted ==
    SpeechStarted /\ up_out = <<ResponseCancel>> /\ cl_out = <<ClClear>>

\* C24: an audio delta does not assign response_start_timestamp when it is
\* already set, nor when the delta belongs to the response that was interrupted
\* by the step before it (it carries the item id of current_response_id).
C24_StartTimestampOncePerUtterance ==
    [][ (DeltaStep'
            /\ \/ response_start_timestamp # None
               \/ /\ JustInterrupted
                  /\ current_response_id # NoItem
                  /\ last_assistant_item' = current_response_id)
        => response_start_timestamp' = response_start_timestamp ]_vars

\* C25: the assistant starts speaking, and response_start_timestamp becomes
\* set, only in a step that handles an audio delta; the assistant stops
\* speaking, and response_start_timestamp becomes unset, only in a step that
\* handles response.done or a speech-started event that passes the test of
\* recording and echo window.  No other step changes either.
C25_TurnStateByTableOnly ==
    [][ /\ ((~assistant_speaking /\ assistant_speaking')
              \/ (response_start_timestamp = None /\ response_start_timestamp' # None))
            => DeltaStep'
        /\ ((assistant_speaking /\ ~assistant_speaking')
              \/ (response_start_timestamp # None /\ response_start_timestamp' = None))
            => \/ DoneStep'
               \/ /\ SpeechStarted'
                  /\ client_recording
                  /\ (now - last_tts_sent_at) > EchoWindowMs
        /\ (response_start_timestamp # None /\ response_start_timestamp' # None)
            => response_start_timestamp' = response_start_timestamp ]_vars

\* a start message was processed while the assistant was speaking, and it
\* still is
C25_Witness ==
    /\ ev = Ev("client", "start")
    /\ assistant_speaking
    /\ response_start_timestamp # None
    /\ latest_media_timestamp = 0

\* C26: the step that handles a client audio message while openai_ws is OPEN
\* sends upstream exactly one input_audio_buffer.append with the audio of that
\* message and nothing else, and sets latest_media_timestamp to its timestamp.
C26_AudioForwardedOnce ==
    [][ \A m \in ClientMessages :
          (m.type = "audio" /\ UpstreamOpen /\ ClientMessage(m))
          => /\ up_out' = <<[type |-> "input_audio_buffer.append", audio |-> m.audio]>>
             /\ latest_media_timestamp' = m.timestamp
             /\ cpc' = "run" ]_vars

\* the second of two different audio messages was forwarded
C26_Witness ==
    /\ ev = Ev("client", "audio")
    /\ up_out = <<[type |-> "input_audio_buffer.append", audio |-> "pcm_2"]>>
    /\ latest_media_timestamp = 1450
    /\ response_start_timestamp = Some(1000)

\* C27: the step that handles an audio delta with the client connected sends
\* the client exactly one audio frame and sends nothing upstream, and the
\* assistant is speaking afterwards; the step that handles response.done sends
\* nothing to either side and the assistant is not speaking afterwards.
C27_DeltaForwardedOnce ==
    [][ /\ \A m \in TurnMessages :
              (m.wire = "ok" /\ m.type = "response.audio.delta" /\ m.has_delta
                  /\ ClientOpen /\ OpenAIMessage(m))
              => /\ cl_out' = <<[type |-> "audio"]>>
                 /\ up_out' = <<>>
                 /\ assistant_speaking'
                 /\ upc' = "run"
        /\ (DoneStep' /\ upc = "run")
              => /\ cl_out' = <<>> /\ up_out' = <<>>
                 /\ ~assistant_speaking' ]_vars

\* a later delta of a response was forwarded: response_start_timestamp is the
\* one of an earlier delta
C27_Witness ==
    /\ DeltaStep
    /\ cl_out = <<ClAudio>> /\ up_out = <<>>
    /\ assistant_speaking
    /\ response_start_timestamp # None
    /\ response_start_timestamp # Some(latest_media_timestamp)
    /\ last_tts_sent_at = now /\ now > 0

\* C29: once both pumps have ended and the cleanup has begun, the handler can
\* leave, closing openai_ws, without a summarization request having to return.
C29_CleanupNotWaitingOnSummary ==
    (hpc = "finally" /\ cpc \in {"done", "raised"} /\ upc \in {"done", "raised"})
        => ENABLED HandlerExit

\* the session fields of a saved context
SessionOf(c) ==
    <<c.latest_media_timestamp, c.last_assistant_item, c.response_start_timestamp,
      c.assistant_speaking, c.last_tts_sent_at, c.client_recording,
      c.current_response_id>>
SwitchStep == ev.src = "loop"

\* C28: the step that handles a transcript event whose text is not blank makes
\* exactly one add_transcript_entry call, on the call id of its own connection,
\* tagged assistant for response.audio_transcript.done and user for the input
\* transcription, with the text of the event; the record and the transcript
\* file of every other call stay as they were.
C28_TranscriptTaggedForOwnCall ==
    [][ \A m \in OpenAIMessages :
          (m.wire = "ok"
              /\ m.type \in {"response.audio_transcript.done",
                             "conversation.item.input_audio_transcription.completed"}
              /\ m.transcript \notin {"", " "}
              /\ OpenAIMessage(m))
          => /\ log_out' = <<[id |-> call_id,
                              speaker |-> IF m.type = "response.audio_transcript.done"
                                          THEN "assistant" ELSE "user",
                              text |-> m.transcript]>>
             /\ \A id \in CallIds \ {call_id} :
                   /\ call_data'[id] = call_data[id]
                   /\ transcript_file'[id] = transcript_file[id] ]_vars

\* C30: a step of the running connection changes nothing of the suspended
\* one, and a connection that is resumed has the session it had when it was
\* suspended.
C30_SessionsIsolated ==
    [][ IF SwitchStep'
        THEN /\ session' = SessionOf(other)
             /\ SessionOf(other') = session
        ELSE other' = other ]_vars

\* both connections are in their turn loops; the running one was just
\* interrupted while the suspended one is still recording and speaking
C30_Witness ==
    /\ JustInterrupted
    /\ ~assistant_speaking /\ last_assistant_item = NoItem
    /\ other.hpc = "gather"
    /\ other.assistant_speaking /\ other.client_recording
    /\ other.last_assistant_item = "item_A"
    /\ other.call_id # call_id

\* both calls are active and hold an entry; the running connection has just
\* logged what its user said
C28_Witness ==
    /\ log_out = <<[id |-> call_id, speaker |-> "user", text |-> "hello"]>>
    /\ other.call_id \in active_calls /\ call_id \in active_calls
    /\ other.call_id # call_id
    /\ transcript_file[other.call_id] = <<[speaker |-> "assistant", text |-> "hello"]>>
    /\ Len(transcript_file[call_id]) = 2

\* C34: however invocations of end_call_and_summarize on one call overlap,
\* requests are issued by at most one of them (two requests for the call), the
\* complete record is written at most once, and no invocation raises.
C34_ConcurrentEndCallSafe ==
    /\ summary_requests <= 2
    /\ \A id \in CallIds : complete_writes[id] <= 1
    /\ \A inv \in Invokers : end_inv[inv].pc # "raised"

\* C35: the transcript of a call whose status is completed does not change
\* any more, the transcript of a written complete record is the one the call
\* had when it became completed, and every id in active_calls has status
\* active.
C35_CompletedTranscriptFrozen ==
    /\ [](\A id \in active_calls : call_data[id].status = "active")
    /\ [][ \A id \in CallIds :
            call_data[id].status = "completed"
                => call_data'[id].transcript = call_data[id].transcript ]_vars

\* C36: an audio delta of the response that the step before interrupted (it
\* carries the item id of current_response_id) sends the client nothing and
\* leaves the assistant not speaking and response_start_timestamp unset.
C36_LateDeltaDropped ==
    [][ (JustInterrupted /\ DeltaStep'
            /\ current_response_id # NoItem
            /\ last_assistant_item' = current_response_id)
        => /\ cl_out' = <<>>
           /\ ~assistant_speaking'
           /\ response_start_timestamp' = None ]_vars

\* C37: assistant_speaking is true exactly when response_start_timestamp is
\* set.
C37_SpeakingIffTimestampSet ==
    assistant_speaking <=> response_start_timestamp # None

\* client audio and a start were processed in the middle of a response
C37_Witness ==
    /\ ev = Ev("client", "audio")
    /\ client_recording
    /\ assistant_speaking
    /\ response_start_timestamp = Some(0)
    /\ latest_media_timestamp = 1450

\* C38: a client audio, start or stop message processed while openai_ws is not
\* OPEN sends nothing upstream and leaves receive_from_client running.
C38_NoSendOnClosedUpstream ==
    [][ ((ev.src = "client" /\ ev.type \in {"audio", "start", "stop"})'
            /\ cpc = "run" /\ ~UpstreamOpen)
        => /\ up_out' = <<>>
           /\ cpc' = "run" ]_vars

\* ---- the moving-request store
UpdateOps == {"save_client_name", "save_move_date", "save_locations", "save_volume",
              "save_floors", "set_price_estimate", "set_requires_on_site_check",
              "complete_request"}

\* the fields in which two requests differ
Changed(r1, r2) == {k \in DOMAIN r1 : r1[k] # r2[k]}

\* the fields a method is called after and takes values for
NamedByArguments(op) ==
    CASE op = "save_client_name" -> {"client_name"}
      [] op = "save_move_date" -> {"move_date"}
      [] op = "save_locations" -> {"from_location", "to_location"}
      [] op = "save_volume" -> {"volume_description"}
      [] op = "save_floors" -> {"from_floor", "to_floor"}
      [] op = "set_price_estimate" -> {"price_estimate"}
      [] op = "set_requires_on_site_check" -> {"requires_on_site_check"}
      [] op = "complete_request" -> {"status"}

\* the same, with the field save_floors derives from the two floors
NamedOrDerived(op) ==
    IF op = "save_floors" THEN {"from_floor", "to_floor", "needs_lift"}
    ELSE NamedByArguments(op)

\* a call of op on id returns True and changes fields of Named(op) of that
\* request only when id is in the store, returns False and changes no request
\* when it is not
FrameOf(op, id, Named(_)) ==
    (last_call'.op = op /\ last_call'.id = id /\ store_calls' # store_calls)
    => IF InStore(id)
       THEN /\ last_call'.ret = Some(TRUE)
            /\ DOMAIN active_requests' = DOMAIN active_requests
            /\ \A j \in DOMAIN active_requests \ {id} : active_requests'[j] = active_requests[j]
            /\ Changed(active_requests[id], active_requests'[id]) \subseteq Named(op)
       ELSE /\ last_call'.ret = Some(FALSE)
            /\ active_requests' = active_requests

\* after a call on an id of the store, get_current_request returns what the
\* call was given
StoredValues(id) ==
    /\ \A name \in Names : (last_call'.op = "save_client_name" /\ save_client_name(id, name))
            => active_requests'[id].client_name = Some(name)
    /\ \A date \in Dates : (last_call'.op = "save_move_date" /\ save_move_date(id, date))
            => active_requests'[id].move_date = Some(date)
    /\ \A f \in Locations, t \in Locations : (last_call'.op = "save_locations" /\ save_locations(id, f, t))
            => /\ active_requests'[id].from_location = Some(f)
               /\ active_requests'[id].to_location = Some(t)
    /\ \A volume \in Volumes : (last_call'.op = "save_volume" /\ save_volume(id, volume))
            => active_requests'[id].volume_description = Some(volume)
    /\ \A f \in Floors, t \in Floors : (last_call'.op = "save_floors" /\ save_floors(id, f, t))
            => /\ active_requests'[id].from_floor = Some(f)
               /\ active_requests'[id].to_floor = Some(t)
    /\ \A estimate \in Estimates : (last_call'.op = "set_price_estimate" /\ set_price_estimate(id, estimate))
            => active_requests'[id].price_estimate = Some(estimate)
    /\ \A b \in BOOLEAN : (last_call'.op = "set_requires_on_site_check" /\ set_requires_on_site_check(id, b))
            => active_requests'[id].requires_on_site_check = Some(b)
    /\ (last_call'.op = "complete_request" /\ complete_request(id)) => active_requests'[id].status = "completed"

\* C31 as stated: on an id of the store every save_*, set_* and
\* complete_request call returns True and changes no field but those it is
\* named after and given; on any other id it returns False and changes no
\* request.
C31_OnlyNamedFields ==
    [][ \A id \in RequestIds :
            /\ \A op \in UpdateOps : FrameOf(op, id, NamedByArguments)
            /\ (InStore(id) /\ last_call'.id = id) => StoredValues(id) ]_vars

\* C31 amended: the same, where save_floors changes from_floor, to_floor and
\* also needs_lift, which it derives from the two floors; get_current_request
\* then returns the values given and complete_request sets status to
\* completed.
C31_NamedOrDerivedFields ==
    [][ \A id \in RequestIds :
            /\ \A op \in UpdateOps : FrameOf(op, id, NamedOrDerived)
            /\ (InStore(id) /\ last_call'.id = id) => StoredValues(id) ]_vars

\* save_floors on a request of the store whose lift field it sets, while the
\* other id is not in the store and a call on it would return False
C31_Witness ==
    /\ last_call = Call("save_floors", "r1", TRUE)
    /\ "r1" \in DOMAIN active_requests /\ "r2" \notin DOMAIN active_requests
    /\ active_requests["r1"].needs_lift = Some(FALSE)
    /\ active_requests["r1"].from_floor = Some(<<"1", "s", "t">>)
    /\ active_requests["r1"].client_name = Some("John Smith")

\* C39: once complete_request(id) has written the file, load_request_from_file(id)
\* and get_current_request(id) return equal records in every later state.
C39_FileEqualsMemory ==
    \A id \in DOMAIN request_file : load_request_from_file(id) = get_current_request(id)

C33_BufferedCommit ==
    [][ (cpc = "run" /\ UpstreamOpen /\ audio_appended)
        => /\ ((ev.src = "client" /\ ev.type = "audio")' /\ audio_chunks_since_commit >= 2)
                => /\ BufferCommit \in Range(up_out')
                   /\ audio_chunks_since_commit' = 0
           /\ ((ev.src = "client" /\ ev.type = "stop")' /\ audio_chunks_since_commit > 0)
                => /\ up_out' = <<BufferCommit>>
                   /\ audio_chunks_since_commit' = 0 ]_vars

====
